---------------------------- MODULE Spec2Model ----------------------------
(***************************************************************************)
(* Model of the preprocessing utilities of src/data/preprocess/lib/utils.py *)
(* (patient-number ranges, blacklist filtering, the seeded train/test/val   *)
(* split, the ROI position extractors) and of the SaveBestModel callback of *)
(* src/models/train_model.py.                                               *)
(*                                                                         *)
(* Python strings are sequences of one-character strings, so that str(),    *)
(* zfill() and the lexicographic order of sorted() are computed, not        *)
(* assumed.  Python lists are sequences (1-based here, 0-based there).      *)
(***************************************************************************)
EXTENDS Integers, Sequences, FiniteSets, TLC

VARIABLES
    min_val,     \* argument of the last range call
    max_val,     \* argument of the last range call
    range_op,    \* "none" | "plain" | "filtered": which range function ran last
    range_out,   \* the list it returned
    records,     \* bin_list / mult_list handed to the last extractor call
    idx,         \* idx handed to the last extractor call
    ext_op,      \* "none" | "bin" | "mult": which extractor ran last
    ext_out,     \* its outcome: [kind |-> "return", value |-> ...] or [kind |-> "IndexError"]
    lists,       \* heap: the list object each caller passes as input_list: [id, items]
    orig,        \* the content each caller's list has when the caller builds it
    rng,         \* state of numpy's global RandomState (np.random)
    pc,          \* per caller: "idle", or the line of train_test_val_split reached
    frame,       \* per caller: the running call's arguments and the list as it was on entry
    last,        \* per caller: arguments and outcome of the latest finished call
    prev,        \* per caller: arguments and outcome of the finished call before that
    budget,      \* per caller: calls the caller may still make
    best_loss,   \* SaveBestModel.best_loss
    files,       \* names of the files self.model.save has written
    epoch,       \* the epoch number the training loop passes next (0, 1, 2, ...)
    logs,        \* the logs dict of the latest on_epoch_end call
    avgs,        \* history: avg_loss of every on_epoch_end call so far
    bests        \* history: best_loss after every on_epoch_end call so far

rangeVars == <<min_val, max_val, range_op, range_out>>
extVars   == <<records, idx, ext_op, ext_out>>
splitVars == <<lists, orig, rng, pc, frame, last, prev, budget>>
saveVars  == <<best_loss, files, epoch, logs, avgs, bests>>
vars      == <<rangeVars, extVars, splitVars, saveVars>>

(***************************************************************************)
(* Bounds of the model.                                                    *)
(***************************************************************************)
MaxSpan == 4        \* max_val ranges over min_val-2 .. min_val+MaxSpan

\* Range starts: around every width change of str(i).zfill(3) and around
\* some blacklisted numbers (004, 012, 013, 078, 154..161, 398).
RangeStarts == <<998, 996, 1000, 0, 2, 9, 12, 76, 98, 154, 396, -2, -11, -101>>

MaxCohort == 6      \* a caller's cohort is the filtered range of at most MaxCohort numbers
MaxSeed   == 2      \* random_seed ranges over 0..MaxSeed
MaxCalls  == 2      \* calls one caller makes in succession

\* (train_ratio, test_ratio) in tenths: <<6, 2>> is split = (0.6, 0.2)
Splits == { <<6, 2>>, <<0, 0>>, <<10, 0>>, <<5, 5>>, <<3, 3>>,
            <<-5, 5>>, <<2, -2>>, <<12, 0>>, <<6, 6>> }

Callers == {1, 2}

MaxRecords == 2     \* records in a bin_list / mult_list
MaxRegions == 2     \* regions ("roi" entries) of the record under study
MaxPos     == 2     \* positions of a region or of a binary record

IdxSet == {1, 2}    \* values of a record's "idx" and of the idx looked up

MaxEpochs == 3      \* on_epoch_end calls of one training run
MaxLoss   == 2      \* a logged value ranges over 0..MaxLoss

(***************************************************************************)
(* Python str, zfill, int and string comparison.                           *)
(***************************************************************************)
DigitChars == <<"0", "1", "2", "3", "4", "5", "6", "7", "8", "9">>

\* ord(c) for the characters that occur: '-' is 45, '0'..'9' are 48..57.
Ord(c) ==
    IF c = "-" THEN 45
    ELSE 47 + (CHOOSE k \in 1..10 : DigitChars[k] = c)

RECURSIVE Digits(_)
Digits(n) ==
    IF n < 10 THEN <<DigitChars[n + 1]>>
    ELSE Digits(n \div 10) \o <<DigitChars[(n % 10) + 1]>>

\* str(i) of an int
Str(i) == IF i < 0 THEN <<"-">> \o Digits(-i) ELSE Digits(i)

Zeros(k) == [j \in 1..k |-> "0"]

\* s.zfill(width): pads with zeros on the left, after a leading sign;
\* a string already width long or longer is returned unchanged.
Zfill(s, width) ==
    IF Len(s) >= width THEN s
    ELSE IF Len(s) > 0 /\ s[1] = "-"
         THEN <<"-">> \o Zeros(width - Len(s)) \o Tail(s)
         ELSE Zeros(width - Len(s)) \o s

RECURSIVE DigitsValue(_)
DigitsValue(s) ==
    IF s = <<>> THEN 0
    ELSE 10 * DigitsValue(SubSeq(s, 1, Len(s) - 1)) + (Ord(s[Len(s)]) - 48)

\* int(s) of a decimal string with optional leading '-'
IntOf(s) == IF Len(s) > 0 /\ s[1] = "-" THEN 0 - DigitsValue(Tail(s)) ELSE DigitsValue(s)

\* a < b for Python strings: lexicographic by code point, a proper prefix first
RECURSIVE StrLess(_, _)
StrLess(a, b) ==
    IF b = <<>> THEN FALSE
    ELSE IF a = <<>> THEN TRUE
    ELSE IF Ord(a[1]) # Ord(b[1]) THEN Ord(a[1]) < Ord(b[1])
    ELSE StrLess(Tail(a), Tail(b))

\* sorted(list(S)) of a set of strings
RECURSIVE Sorted(_)
Sorted(S) ==
    IF S = {} THEN <<>>
    ELSE LET m == CHOOSE x \in S : \A y \in S \ {x} : StrLess(x, y)
         IN  <<m>> \o Sorted(S \ {m})

\* set(tuple(l))
SetOf(l) == {l[k] : k \in 1..Len(l)}

\* the three-character literal "abc" given by its digits
Lit(a, b, c) == <<DigitChars[a + 1], DigitChars[b + 1], DigitChars[c + 1]>>

(***************************************************************************)
(* The blacklists.                                                         *)
(***************************************************************************)
blacklist_pixel_overlap ==
    << Lit(1,3,2), Lit(4,2,8), Lit(0,0,4), Lit(0,3,7), Lit(1,1,6), Lit(1,4,4),
       Lit(3,0,0), Lit(1,6,1), Lit(2,8,3), Lit(3,0,3), Lit(1,5,4), Lit(3,0,5),
       Lit(2,8,9), Lit(3,8,7), Lit(0,1,3) >>

blacklist_mislabelled_roi == << Lit(3,9,8), Lit(2,3,8) >>

blacklist_multiple_image_id_with_roi ==
    << Lit(1,9,2), Lit(2,7,6), Lit(4,3,5), Lit(1,5,5), Lit(1,8,9), Lit(3,5,8),
       Lit(1,9,4), Lit(2,2,8), Lit(0,7,8), Lit(4,1,7), Lit(1,6,5), Lit(1,4,6),
       Lit(1,2,0), Lit(1,5,6) >>

blacklist_multiple_image_id ==
    << Lit(6,0,7), Lit(6,4,1), Lit(3,5,8), Lit(1,9,4), Lit(4,1,7), Lit(4,5,3),
       Lit(4,9,3), Lit(1,5,6), Lit(7,2,6), Lit(1,5,5), Lit(6,8,5), Lit(2,2,8),
       Lit(6,8,4), Lit(1,4,6), Lit(1,9,2), Lit(1,8,9), Lit(1,6,5), Lit(7,0,0),
       Lit(0,7,8), Lit(2,7,6), Lit(4,3,5), Lit(3,9,8), Lit(6,3,8), Lit(5,1,3),
       Lit(5,4,5), Lit(7,4,1), Lit(1,2,0) >>

blacklist_invalid_dicom == << Lit(1,5,9) >>

blacklist_no_image == << Lit(0,1,2), Lit(1,9,7), Lit(5,9,8) >>

(***************************************************************************)
(* patient_number_zfill_range and filtered_patient_number_zfill_range.     *)
(***************************************************************************)
\* range(min_val, max_val): the upper end left out
RangeWithoutMax(lo, hi) ==
    IF hi <= lo THEN <<>>
    ELSE [k \in 1..(hi - lo) |-> Zfill(Str(lo + k - 1), 3)]

\* for i in range(lo, hi + 1): output.append(str(i).zfill(3))
patient_number_zfill_range(lo, hi) ==
    IF hi < lo THEN <<>>
    ELSE [k \in 1..(hi - lo + 1) |-> Zfill(Str(lo + k - 1), 3)]

RECURSIVE Reverse(_)
Reverse(s) == IF s = <<>> THEN <<>> ELSE Reverse(Tail(s)) \o <<Head(s)>>

\* the subtraction without set_multiple_image
FilteredKeepMultiple(lo, hi) ==
    Sorted(((((SetOf(patient_number_zfill_range(lo, hi))
        \ SetOf(blacklist_pixel_overlap))
        \ SetOf(blacklist_mislabelled_roi))
        \ SetOf(blacklist_invalid_dicom))
        \ SetOf(blacklist_no_image)))

\* sorted(..., reverse=True)
FilteredDescending(lo, hi) ==
    Reverse(Sorted((((((SetOf(patient_number_zfill_range(lo, hi))
        \ SetOf(blacklist_pixel_overlap))
        \ SetOf(blacklist_mislabelled_roi))
        \ SetOf(blacklist_multiple_image_id))
        \ SetOf(blacklist_invalid_dicom))
        \ SetOf(blacklist_no_image))))

\* The code subtracts five sets: blacklist_multiple_image_id_with_roi() is
\* never called.
filtered_patient_number_zfill_range(lo, hi) ==
    Sorted((((((SetOf(patient_number_zfill_range(lo, hi))
        \ SetOf(blacklist_pixel_overlap))
        \ SetOf(blacklist_mislabelled_roi))
        \ SetOf(blacklist_multiple_image_id))
        \ SetOf(blacklist_invalid_dicom))
        \ SetOf(blacklist_no_image)))


(***************************************************************************)
(* numpy's global RandomState, as a small generator: a seed fixes the      *)
(* state, every draw advances it, and a bounded draw masks and rejects as  *)
(* rk_interval does.                                                       *)
(***************************************************************************)
\* np.random.seed(s): the state is a function of the seed alone
SeedState(s) == s % 64

\* one step of the generator (a full-period congruential step on 0..63)
RngStep(st) == (13 * st + 11) % 64

\* the smallest 2^k - 1 that is >= max
RECURSIVE MaskFor(_, _)
MaskFor(max, m) == IF m >= max THEN m ELSE MaskFor(max, 2 * m + 1)

\* a draw in 0..max: [value, rng]; max = 0 draws nothing
RECURSIVE RandInterval(_, _)
RandInterval(max, st) ==
    IF max = 0 THEN [value |-> 0, rng |-> st]
    ELSE LET st2 == RngStep(st)
             v   == (st2 \div 8) % (MaskFor(max, 1) + 1)
         IN  IF v <= max THEN [value |-> v, rng |-> st2]
             ELSE RandInterval(max, st2)

\* x[i], x[j] = x[j], x[i]   (1-based places)
Swap(x, i, j) == [x EXCEPT ![i] = x[j], ![j] = x[i]]

\* np.random.shuffle(x): for i in reversed(range(1, n)): j = draw(0..i); swap.
\* ShuffleFrom(x, i, st) runs the loop from 0-based place i down to 1.
RECURSIVE ShuffleFrom(_, _, _)
ShuffleFrom(x, i, st) ==
    IF i < 1 THEN [data |-> x, rng |-> st]
    ELSE LET d == RandInterval(i, st)
         IN  ShuffleFrom(Swap(x, i + 1, d.value + 1), i - 1, d.rng)

Shuffle(x, st) == ShuffleFrom(x, Len(x) - 1, st)

(***************************************************************************)
(* train_test_val_split.                                                   *)
(***************************************************************************)
\* int(x) of the float n * r, r = k/10: truncation toward zero
IntOfProduct(n, k) ==
    IF n * k >= 0 THEN (n * k) \div 10 ELSE 0 - ((0 - n * k) \div 10)

\* a slice bound as Python normalises it: negative counts from the end,
\* then clamped into 0..n
SliceBound(b, n) ==
    LET c == IF b < 0 THEN b + n ELSE b
    IN  IF c < 0 THEN 0 ELSE IF c > n THEN n ELSE c

\* s[a:b]
PySlice(s, a, b) ==
    LET lo == SliceBound(a, Len(s))
        hi == SliceBound(b, Len(s))
    IN  IF lo < hi THEN SubSeq(s, lo + 1, hi) ELSE <<>>

\* s[a:]
PySliceFrom(s, a) ==
    LET lo == SliceBound(a, Len(s))
    IN  IF lo < Len(s) THEN SubSeq(s, lo + 1, Len(s)) ELSE <<>>

num_train(data, split) == IntOfProduct(Len(data), split[1])
num_test(data, split)  == IntOfProduct(Len(data), split[2])

\* lines 301-313: the returned dict, from the shuffled data
SplitResult(data, split) ==
    [ train |-> PySlice(data, 0, num_train(data, split)),
      test  |-> PySlice(data, num_train(data, split),
                        num_train(data, split) + num_test(data, split)),
      val   |-> PySliceFrom(data, num_train(data, split) + num_test(data, split)) ]


NoCall == [called |-> FALSE]

\* lines 297-298: data = input_list; np.random.seed(random_seed)
Call(t, split, seed) ==
    /\ pc[t] = "idle"
    /\ budget[t] > 0
    /\ budget' = [budget EXCEPT ![t] = @ - 1]
    /\ frame' = [frame EXCEPT ![t] =
                    [ called |-> TRUE, split |-> split, seed |-> seed,
                      obj |-> lists[t].id, entry |-> lists[t].items ]]
    /\ rng' = SeedState(seed)
    /\ pc' = [pc EXCEPT ![t] = "seeded"]
    /\ UNCHANGED <<lists, orig, last, prev, rangeVars, extVars, saveVars>>

\* line 299: np.random.shuffle(data) permutes the caller's list in place,
\* drawing from the global generator
ShuffleStep(t) ==
    /\ pc[t] = "seeded"
    /\ LET r == Shuffle(lists[t].items, rng)
       IN  /\ lists' = [lists EXCEPT ![t].items = r.data]
           /\ rng' = r.rng
    /\ pc' = [pc EXCEPT ![t] = "shuffled"]
    /\ UNCHANGED <<orig, frame, last, prev, budget, rangeVars, extVars, saveVars>>

\* lines 301-313: the slices are taken and the dict is returned; no line of
\* the function raises on the values of split
Return(t) ==
    /\ pc[t] = "shuffled"
    /\ last' = [last EXCEPT ![t] =
                    [ called |-> TRUE, split |-> frame[t].split, seed |-> frame[t].seed,
                      obj |-> frame[t].obj, entry |-> frame[t].entry,
                      outcome |-> "return",
                      ret |-> SplitResult(lists[t].items, frame[t].split) ]]
    /\ prev' = [prev EXCEPT ![t] = last[t]]
    /\ pc' = [pc EXCEPT ![t] = "idle"]
    /\ UNCHANGED <<lists, orig, rng, frame, budget, rangeVars, extVars, saveVars>>

\* the caller builds its cohort again: a new list object with the content
\* filtered_patient_number_zfill_range gives
Rebuild(t) ==
    /\ pc[t] = "idle"
    /\ budget[t] > 0
    /\ last[t].called
    /\ lists[t].id < MaxCalls
    /\ lists' = [lists EXCEPT ![t] = [id |-> @.id + 1, items |-> orig[t]]]
    /\ UNCHANGED <<orig, rng, pc, frame, last, prev, budget, rangeVars, extVars, saveVars>>

(***************************************************************************)
(* Floats as far as SaveBestModel needs them: infinity, NaN, and numbers   *)
(* n/d with d > 0.                                                         *)
(***************************************************************************)
Inf == [kind |-> "inf"]
NaN == [kind |-> "nan"]
Num(n, d) == [kind |-> "num", n |-> n, d |-> d]

\* a < b: False when either side is NaN; no number is above infinity
FloatLess(a, b) ==
    /\ a.kind = "num"
    /\ \/ b.kind = "inf"
       \/ b.kind = "num" /\ a.n * b.d < b.n * a.d

SaveIdle ==
    /\ best_loss = Inf
    /\ files = {}
    /\ epoch = 0
    /\ logs = <<>>
    /\ avgs = <<>>
    /\ bests = <<>>

RangeIdle ==
    /\ min_val = 0
    /\ max_val = 0
    /\ range_op = "none"
    /\ range_out = <<>>

SplitIdle ==
    /\ orig = [t \in Callers |-> <<>>]
    /\ lists = [t \in Callers |-> [id |-> 1, items |-> <<>>]]
    /\ rng = 0
    /\ pc = [t \in Callers |-> "idle"]
    /\ frame = [t \in Callers |-> NoCall]
    /\ last = [t \in Callers |-> NoCall]
    /\ prev = [t \in Callers |-> NoCall]
    /\ budget = [t \in Callers |-> 0]

ExtIdle ==
    /\ records = <<>>
    /\ idx = 0
    /\ ext_op = "none"
    /\ ext_out = [kind |-> "none"]

\* caller t's cohort: the filtered range of hi numbers from 1 (caller 1) or 21
InitCohorts(calls) ==
    /\ \E hi \in 0..MaxCohort :
          orig = [t \in Callers |->
                     filtered_patient_number_zfill_range(1 + 20 * (t - 1), hi + 20 * (t - 1))]
    /\ lists = [t \in Callers |-> [id |-> 1, items |-> orig[t]]]
    /\ rng \in 0..63
    /\ pc = [t \in Callers |-> "idle"]
    /\ frame = [t \in Callers |-> NoCall]
    /\ last = [t \in Callers |-> NoCall]
    /\ prev = [t \in Callers |-> NoCall]
    /\ budget = calls

(***************************************************************************)
(* One caller calling train_test_val_split in succession.                  *)
(***************************************************************************)
InitSplit == RangeIdle /\ ExtIdle /\ SaveIdle /\ InitCohorts([t \in Callers |-> IF t = 1 THEN MaxCalls ELSE 0])

NextSplit ==
    \/ \E split \in Splits, seed \in 0..MaxSeed : Call(1, split, seed)
    \/ ShuffleStep(1)
    \/ Return(1)
    \/ Rebuild(1)

SpecSplit == InitSplit /\ [][NextSplit]_vars

(***************************************************************************)
(* Two callers, each calling once on its own list, their steps interleaved.*)
(***************************************************************************)
InitConc == RangeIdle /\ ExtIdle /\ SaveIdle /\ InitCohorts([t \in Callers |-> 1])

NextConc ==
    \E t \in Callers :
        \/ \E split \in Splits, seed \in 0..MaxSeed : Call(t, split, seed)
        \/ ShuffleStep(t)
        \/ Return(t)

SpecConc == InitConc /\ [][NextConc]_vars


(***************************************************************************)
(* Properties of train_test_val_split.                                     *)
(***************************************************************************)
Count(s, x) == Cardinality({k \in 1..Len(s) : s[k] = x})

SameMultiset(a, b) == \A x \in SetOf(a) \cup SetOf(b) : Count(a, x) = Count(b, x)

NoDuplicates(s) == \A j, k \in 1..Len(s) : j # k => s[j] # s[k]

\* 0 <= train_ratio, 0 <= test_ratio, train_ratio + test_ratio <= 1 (in tenths)
ValidSplit(split) == split[1] >= 0 /\ split[2] >= 0 /\ split[1] + split[2] <= 10

\* floor(n * k/10)
FloorOfProduct(n, k) == (n * k) \div 10

Groups(r) == r.train \o r.test \o r.val

\* what a call returns when nothing else touches the generator
SplitAlone(entry, split, seed) == SplitResult(Shuffle(entry, SeedState(seed)).data, split)

\* C1: whenever a call returns, train + test + val is, as a multiset, the
\* cohort handed in: nothing is duplicated across or within the groups and
\* nothing is lost.
C1_GroupsAreTheCohort ==
    \A t \in Callers :
        (last[t].called /\ last[t].outcome = "return") =>
            /\ SameMultiset(Groups(last[t].ret), last[t].entry)
            /\ NoDuplicates(Groups(last[t].ret))

\* C2: two calls in succession with the same list, the same ratios and the
\* same seed return identical train, test and val groups.
C2_SameArgumentsSameGroups ==
    \A t \in Callers :
        (/\ prev[t].called
         /\ last[t].called
         /\ prev[t].obj = last[t].obj
         /\ prev[t].split = last[t].split
         /\ prev[t].seed = last[t].seed) => prev[t].ret = last[t].ret

\* C4: a call with a negative ratio, or with train_ratio + test_ratio > 1,
\* ends in an error and returns no split.
C4_InvalidRatiosRejected ==
    \A t \in Callers :
        (last[t].called /\ ~ValidSplit(last[t].split)) => last[t].outcome # "return"

\* C5: the groups are contiguous slices of the shuffled cohort with
\* len(train) = floor(n * train_ratio), len(test) = floor(n * test_ratio) and
\* val holding the remaining n - len(train) - len(test) elements.
C5_SliceSizes ==
    \A t \in Callers :
        last[t].called =>
            LET n == Len(last[t].entry)
                r == last[t].ret
            IN  /\ Len(r.train) = FloorOfProduct(n, last[t].split[1])
                /\ Len(r.test) = FloorOfProduct(n, last[t].split[2])
                /\ Len(r.val) = n - Len(r.train) - Len(r.test)
                /\ (pc[t] = "idle" /\ lists[t].id = last[t].obj) => Groups(r) = lists[t].items

\* C10: under every interleaving of two calls' steps, each call returns the
\* partition it returns when run alone on its cohort, ratios and seed.
C10_NoInterference ==
    \A t \in Callers :
        last[t].called =>
            last[t].ret = SplitAlone(last[t].entry, last[t].split, last[t].seed)


\* C11: after any call the caller's input list holds the same elements in
\* the same order as before the call.
C11_ArgumentUnchanged ==
    \A t \in Callers :
        (pc[t] = "idle" /\ last[t].called /\ lists[t].id = last[t].obj) =>
            lists[t].items = last[t].entry

(***************************************************************************)
(* Calls of the two range functions.                                       *)
(***************************************************************************)
CallPatientRange(lo, hi) ==
    /\ range_op = "none"
    /\ min_val' = lo
    /\ max_val' = hi
    /\ range_op' = "plain"
    /\ range_out' = patient_number_zfill_range(lo, hi)
    /\ UNCHANGED <<extVars, splitVars, saveVars>>

CallFilteredRange(lo, hi) ==
    /\ range_op = "none"
    /\ min_val' = lo
    /\ max_val' = hi
    /\ range_op' = "filtered"
    /\ range_out' = filtered_patient_number_zfill_range(lo, hi)
    /\ UNCHANGED <<extVars, splitVars, saveVars>>

InitRange == RangeIdle /\ ExtIdle /\ SplitIdle /\ SaveIdle

\* the six lists one after the other
AllBlacklists ==
    blacklist_pixel_overlap \o blacklist_mislabelled_roi
        \o blacklist_multiple_image_id_with_roi \o blacklist_multiple_image_id
        \o blacklist_invalid_dicom \o blacklist_no_image

\* starts of the filtered ranges: RangeStarts, then the number before each
\* blacklisted one, so that every blacklisted number lies in some range
FilteredStarts == RangeStarts \o [k \in 1..Len(AllBlacklists) |-> IntOf(AllBlacklists[k]) - 1]

NextRange ==
    \/ \E i \in 1..Len(RangeStarts) : \E hi \in (RangeStarts[i] - 2)..(RangeStarts[i] + MaxSpan) :
          CallPatientRange(RangeStarts[i], hi)
    \/ \E i \in 1..Len(FilteredStarts) : \E hi \in (FilteredStarts[i] - 2)..(FilteredStarts[i] + MaxSpan) :
          CallFilteredRange(FilteredStarts[i], hi)

SpecRange == InitRange /\ [][NextRange]_vars

AllBlacklisted == SetOf(AllBlacklists)

NumericallyAscending(s) == \A j, k \in 1..Len(s) : j < k => IntOf(s[j]) < IntOf(s[k])

\* C3: the list filtered_patient_number_zfill_range returns holds no
\* identifier of any of the six blacklists.
C3_FilteredAvoidsBlacklists ==
    range_op = "filtered" => SetOf(range_out) \cap AllBlacklisted = {}

\* a filtered range whose numbers include one of the multiple-image-with-ROI
\* blacklist, the set the code never subtracts, and that kept other numbers
C3_Witness ==
    /\ range_op = "filtered"
    /\ SetOf(patient_number_zfill_range(min_val, max_val))
          \cap SetOf(blacklist_multiple_image_id_with_roi) # {}
    /\ range_out # <<>>

\* C6 as claimed: for all integers min_val <= max_val the result has
\* max_val - min_val + 1 identifiers in ascending order, each of width 3.
C6_CountOrderWidth ==
    (range_op = "plain" /\ min_val <= max_val) =>
        /\ Len(range_out) = max_val - min_val + 1
        /\ NumericallyAscending(range_out)
        /\ \A k \in 1..Len(range_out) : Len(range_out[k]) = 3

\* C6 amended: for all integers min_val <= max_val the result has
\* max_val - min_val + 1 identifiers in ascending order; each has width 3
\* when -99 <= min_val and max_val <= 999.
C6_CountOrderWidthInRange ==
    (range_op = "plain" /\ min_val <= max_val) =>
        /\ Len(range_out) = max_val - min_val + 1
        /\ NumericallyAscending(range_out)
        /\ (-99 <= min_val /\ max_val <= 999) =>
               \A k \in 1..Len(range_out) : Len(range_out[k]) = 3

\* a non-empty range within -99..999 whose first number needed padding
C6_Witness ==
    /\ range_op = "plain"
    /\ min_val < max_val
    /\ 0 <= min_val
    /\ min_val < 10
    /\ max_val <= 999
    /\ range_out[1] = Zeros(2) \o Str(min_val)

\* C7 as claimed: for every range the filtered list is in strictly ascending
\* numeric order, and so holds no duplicates.
C7_FilteredAscending ==
    range_op = "filtered" =>
        /\ NumericallyAscending(range_out)
        /\ NoDuplicates(range_out)

\* C7 amended: for every range the filtered list holds no duplicates, and
\* for 0 <= min_val and max_val <= 999 it is in strictly ascending numeric
\* order.
C7_FilteredAscendingInRange ==
    range_op = "filtered" =>
        /\ NoDuplicates(range_out)
        /\ (0 <= min_val /\ max_val <= 999) => NumericallyAscending(range_out)

\* a filtered range within 0..999 that dropped a number and kept at least two
C7_Witness ==
    /\ range_op = "filtered"
    /\ 0 <= min_val
    /\ max_val <= 999
    /\ Len(range_out) >= 2
    /\ Len(range_out) < max_val - min_val + 1


(***************************************************************************)
(* get_pos_from_bin_list and get_pos_from_mult_list.                       *)
(***************************************************************************)
\* [x for x in l if x["idx"] == idx]
FilterIdx(l, i) ==
    LET Test(x) == x.idx = i
    IN  SelectSeq(l, Test)

\* a missing record answered with an empty list instead of list(...)[0]
BinDefaultEmpty(l, i) ==
    IF FilterIdx(l, i) = <<>> THEN [kind |-> "return", value |-> <<>>]
    ELSE [kind |-> "return", value |-> FilterIdx(l, i)[1].pos]

\* list(filtered_list)[0]["pos"]: [0] of an empty list raises IndexError
get_pos_from_bin_list(l, i) ==
    IF FilterIdx(l, i) = <<>> THEN [kind |-> "IndexError"]
    ELSE [kind |-> "return", value |-> FilterIdx(l, i)[1].pos]

\* loc read once, from the first region, instead of per region
RECURSIVE TriplesFirstLoc(_)
TriplesFirstLoc(rois) ==
    IF rois = <<>> THEN <<>>
    ELSE LET last_roi == rois[Len(rois)]
         IN  TriplesFirstLoc(SubSeq(rois, 1, Len(rois) - 1))
                \o [k \in 1..Len(last_roi.pos) |->
                       <<last_roi.pos[k][1], last_roi.pos[k][2], rois[1].loc>>]

\* for roi in rois: loc = roi["loc"]; for pos in roi["pos"]:
\*     out_list.append([pos[0], pos[1], loc])
RECURSIVE RoiTriples(_)
RoiTriples(rois) ==
    IF rois = <<>> THEN <<>>
    ELSE [k \in 1..Len(Head(rois).pos) |->
             <<Head(rois).pos[k][1], Head(rois).pos[k][2], Head(rois).loc>>]
         \o RoiTriples(Tail(rois))

get_pos_from_mult_list(l, i) ==
    IF FilterIdx(l, i) = <<>> THEN [kind |-> "IndexError"]
    ELSE [kind |-> "return", value |-> RoiTriples(FilterIdx(l, i)[1].roi)]

(***************************************************************************)
(* The record lists handed to the extractors.  The record at place m has   *)
(* positions <<10*m + r, k>> (region r, position k), so that a result      *)
(* tells which record, region and position each entry came from; one       *)
(* record, the focus, ranges over every shape within the bounds, the       *)
(* others have one region of one position.                                 *)
(***************************************************************************)
SeqsUpTo(S, n) == UNION {[1..k -> S] : k \in 0..n}

Locs == <<"LAD", "RCA", "LCX", "LCA">>

Positions(m, r, n) == [k \in 1..n |-> <<10 * m + r, k>>]

Regions(m, shape) ==
    [r \in 1..Len(shape) |->
        [loc |-> Locs[((m + r) % 4) + 1], pos |-> Positions(m, r, shape[r])]]

BinList(idxs, f, n) ==
    [m \in 1..Len(idxs) |->
        [idx |-> idxs[m], pos |-> Positions(m, 0, IF m = f THEN n ELSE 1)]]

MultList(idxs, f, shape) ==
    [m \in 1..Len(idxs) |->
        [idx |-> idxs[m], roi |-> Regions(m, IF m = f THEN shape ELSE <<1>>)]]

CallBin(l, i) ==
    /\ ext_op = "none"
    /\ records' = l
    /\ idx' = i
    /\ ext_op' = "bin"
    /\ ext_out' = get_pos_from_bin_list(l, i)
    /\ UNCHANGED <<rangeVars, splitVars, saveVars>>

CallMult(l, i) ==
    /\ ext_op = "none"
    /\ records' = l
    /\ idx' = i
    /\ ext_op' = "mult"
    /\ ext_out' = get_pos_from_mult_list(l, i)
    /\ UNCHANGED <<rangeVars, splitVars, saveVars>>

InitExtract == RangeIdle /\ ExtIdle /\ SplitIdle /\ SaveIdle

NextExtract ==
    \/ \E idxs \in SeqsUpTo(IdxSet, MaxRecords), f \in 1..MaxRecords,
          n \in 0..MaxPos, i \in IdxSet :
          CallBin(BinList(idxs, f, n), i)
    \/ \E idxs \in SeqsUpTo(IdxSet, MaxRecords), f \in 1..MaxRecords,
          shape \in SeqsUpTo(0..MaxPos, MaxRegions), i \in IdxSet :
          CallMult(MultList(idxs, f, shape), i)

SpecExtract == InitExtract /\ [][NextExtract]_vars

\* places of the records whose "idx" is the idx looked up
Matches == {m \in 1..Len(records) : records[m].idx = idx}

\* the record the lookup selects: the first with that idx
Matched == records[CHOOSE m \in Matches : \A m2 \in Matches : m <= m2]

\* C8: with no record of that idx the call ends in a lookup error; with a
\* matching record that has no positions (or no regions) it returns an empty
\* result; the caller can always tell the two outcomes apart.
C8_AbsentIsNotEmpty ==
    ext_op \in {"bin", "mult"} =>
        /\ Matches = {} => ext_out.kind = "IndexError"
        /\ Matches # {} => ext_out.kind = "return"
        /\ (Matches # {} /\ ext_op = "bin" /\ Matched.pos = <<>>) =>
               ext_out = [kind |-> "return", value |-> <<>>]
        /\ (Matches # {} /\ ext_op = "mult"
               /\ \A r \in 1..Len(Matched.roi) : Matched.roi[r].pos = <<>>) =>
               ext_out = [kind |-> "return", value |-> <<>>]

\* a record without regions found behind a record of another idx
C8_Witness ==
    /\ ext_op = "mult"
    /\ Len(records) = 2
    /\ records[1].idx # idx
    /\ records[2].idx = idx
    /\ records[2].roi = <<>>
    /\ ext_out = [kind |-> "return", value |-> <<>>]

\* positions in the first r regions
RECURSIVE PosCount(_, _)
PosCount(rois, r) == IF r = 0 THEN 0 ELSE PosCount(rois, r - 1) + Len(rois[r].pos)

\* C9: the result holds exactly one (x, y, location) triple per position of
\* every region of the matching record, in region order then position order,
\* each with the location of its region.
C9_FlatTriples ==
    (ext_op = "mult" /\ Matches # {}) =>
        LET rois == Matched.roi
            out  == ext_out.value
        IN  /\ ext_out.kind = "return"
            /\ Len(out) = PosCount(rois, Len(rois))
            /\ \A r \in 1..Len(rois) : \A k \in 1..Len(rois[r].pos) :
                  out[PosCount(rois, r - 1) + k]
                      = <<rois[r].pos[k][1], rois[r].pos[k][2], rois[r].loc>>

\* a matching record with two regions of different locations, both with
\* positions, found behind a record of another idx
C9_Witness ==
    /\ ext_op = "mult"
    /\ Len(records) = 2
    /\ records[1].idx # idx
    /\ records[2].idx = idx
    /\ Len(records[2].roi) = 2
    /\ records[2].roi[1].loc # records[2].roi[2].loc
    /\ Len(records[2].roi[1].pos) = 2
    /\ Len(records[2].roi[2].pos) = 1
    /\ Len(ext_out.value) = 3


(***************************************************************************)
(* SaveBestModel (src/models/train_model.py).  A logs dict is a function   *)
(* from keys (strings) to logged values.                                   *)
(***************************************************************************)
KeyLoss      == <<"l", "o", "s", "s">>
KeyValLoss   == <<"v", "a", "l", "_", "l", "o", "s", "s">>
KeyValRecall == <<"v", "a", "l", "_", "r", "e", "c", "a", "l", "l">>

LogKeys == {KeyLoss, KeyValLoss, KeyValRecall}

\* every logs dict over some of the keys
LogsSet == UNION {[S -> 0..MaxLoss] : S \in SUBSET LogKeys}

\* sub in key
Contains(sub, key) ==
    \E i \in 1..(Len(key) - Len(sub) + 1) : SubSeq(key, i, i + Len(sub) - 1) = sub

\* [key for key in logs.keys() if "val" in key]
loss_keys(l) == {k \in DOMAIN l : Contains(<<"v", "a", "l">>, k)}

RECURSIVE SumOver(_, _)
SumOver(l, S) ==
    IF S = {} THEN 0
    ELSE LET k == CHOOSE x \in S : TRUE
         IN  l[k] + SumOver(l, S \ {k})

\* np.mean([logs[key] for key in loss_keys]); the mean of nothing is nan
avg_loss(l) ==
    IF loss_keys(l) = {} THEN NaN
    ELSE Num(SumOver(l, loss_keys(l)), Cardinality(loss_keys(l)))

\* avg_loss <= self.best_loss
SaveOnTie(avg, best) == avg.kind = "num" /\ best.kind # "nan" /\ ~FloatLess(best, avg)

\* if avg_loss < self.best_loss
ShouldSave(avg, best) == FloatLess(avg, best)

\* the number in model_epoch_{str(epoch).zfill(7)}.h5
filename(e) == Zfill(Str(e), 7)

on_epoch_end(l) ==
    /\ epoch < MaxEpochs
    /\ IF ShouldSave(avg_loss(l), best_loss)
       THEN /\ best_loss' = avg_loss(l)
            /\ files' = files \cup {filename(epoch)}
       ELSE UNCHANGED <<best_loss, files>>
    /\ logs' = l
    /\ epoch' = epoch + 1
    /\ avgs' = Append(avgs, avg_loss(l))
    /\ bests' = Append(bests, best_loss')
    /\ UNCHANGED <<rangeVars, extVars, splitVars>>

\* __init__: best_loss = float("inf"), nothing saved
InitSave == RangeIdle /\ ExtIdle /\ SplitIdle /\ SaveIdle

NextSave == \E l \in LogsSet : on_epoch_end(l)

SpecSave == InitSave /\ [][NextSave]_vars

FloatEq(a, b) ==
    \/ a.kind = "inf" /\ b.kind = "inf"
    \/ a.kind = "num" /\ b.kind = "num" /\ a.n * b.d = b.n * a.d

\* best_loss before the e-th call
BestBefore(e) == IF e = 1 THEN Inf ELSE bests[e - 1]

\* the e-th call wrote its file
SavedAt(e) == filename(e - 1) \in files

\* the validation entries of a logs dict, named one by one
ValEntries(l) == DOMAIN l \cap {KeyValLoss, KeyValRecall}

\* m is the least of infinity and the averages of the first e calls that
\* are numbers
IsMinimumUpTo(m, e) ==
    /\ m = Inf \/ \E j \in 1..e : FloatEq(avgs[j], m)
    /\ \A j \in 1..e : avgs[j].kind = "num" => ~FloatLess(avgs[j], m)

\* C12: best_loss starts at infinity, never increases, and after each call
\* is the minimum of the per-epoch averages (over the entries whose key
\* contains "val") so far; the model is saved at an epoch exactly when that
\* epoch's average is strictly below the best_loss held before the call, and
\* an epoch that ties or worsens the best saves nothing and leaves best_loss
\* unchanged.
C12_BestIsRunningMinimum ==
    /\ best_loss = (IF avgs = <<>> THEN Inf ELSE bests[Len(bests)])
    /\ Len(bests) = Len(avgs)
    /\ avgs # <<>> =>
          LET v == ValEntries(logs)
              a == avgs[Len(avgs)]
          IN  IF v = {} THEN a = NaN
              ELSE a.kind = "num" /\ a.n * Cardinality(v) = SumOver(logs, v) * a.d
    /\ \A e \in 1..Len(avgs) :
          /\ ~FloatLess(BestBefore(e), bests[e])
          /\ IsMinimumUpTo(bests[e], e)
          /\ SavedAt(e) <=> FloatLess(avgs[e], BestBefore(e))
          /\ ~FloatLess(avgs[e], BestBefore(e)) => bests[e] = BestBefore(e)

\* three epochs: the first sets the best, the second ties it and saves
\* nothing, the third improves on it; the last logs also hold a training
\* loss that is no part of the average
C12_Witness ==
    /\ Len(avgs) = 3
    /\ avgs[1].kind = "num"
    /\ FloatEq(avgs[2], avgs[1])
    /\ FloatLess(avgs[3], avgs[1])
    /\ files = {filename(0), filename(2)}
    /\ best_loss = avgs[3]
    /\ DOMAIN logs = LogKeys
    /\ logs[KeyLoss] > logs[KeyValLoss]

=============================================================================
